---- MODULE Spec2Model ----
(***************************************************************************)
(* Network store of the wallet (src/store/Network.ts): the connection      *)
(* lifecycle (initialize / uninitialize / SET_CURRENT_PEER), the websocket *)
(* subscriptions (SUBSCRIBE / UNSUBSCRIBE) and the store mutations they    *)
(* commit, the list of known peers, the block cache with the planner of    *)
(* block ranges (getBlockRanges) and REST_FETCH_BLOCKS.  Every             *)
(* asynchronous action is cut at its awaits: one TLA+ action is the code   *)
(* that runs between two suspension points.                                *)
(*                                                                         *)
(* Three specifications share the state: Spec runs the connection          *)
(* lifecycle, StoreSpec the known peers and the block cache (they write    *)
(* disjoint parts of the store), RangeSpec applies getBlockRanges to the   *)
(* arrays of heights of a bounded set.                                     *)
(***************************************************************************)
EXTENDS Integers, Sequences, FiniteSets, TLC

\* ---- bounds -------------------------------------------------------------
NumTasks == 2           \* callers that may have an operation in flight
MaxListeners == 2       \* websocket listeners ever opened
MaxHeight == 1          \* heights the chain may report
MaxCalls == 3           \* operations called in one run
MaxKnownPeers == 3      \* length of the list of known peers
MaxPages == 3           \* heights requested lie in pages 0..MaxPages
MaxBlockHeight == 205   \* pairs of heights planned lie in 0..MaxBlockHeight

Tasks == 1..NumTasks

\* ---- URLs (strings are modelled as <<scheme, rest>>) --------------------
EmptyString == <<"", "">>
DefaultNodeUrl == <<"http", "a">>
PeerUrls == {<<"http", "a">>, <<"https", "b">>}
InvalidUrls == {<<"", "not a url">>}

isValidURL(u) == u[1] \in {"http", "https"} /\ u[2] # ""

formatUrl(u) == [url |-> u, protocol |-> u[1], hostname |-> u[2]]

httpToWsUrl(u) ==
  <<IF u[1] = "https" THEN "wss" ELSE IF u[1] = "http" THEN "ws" ELSE u[1], u[2]>>

\* ---- answers of the transport -------------------------------------------
NetworkTypeAnswers == {"TEST_NET", "UNRECOGNIZED"}
Heights == 1..MaxHeight

\* ---- known peers -------------------------------------------------------
\* networkConfig.networks['testnet-publicTest'].nodes as loaded
DefaultNodes == <<DefaultNodeUrl>>

\* ---- blocks and block ranges -------------------------------------------
pageSize == 100

\* Math.min() of no argument; it is above every height of the model
Infinity == (MaxPages + 2) * pageSize + MaxBlockHeight

\* the first two heights of each of the pages 0..MaxPages
PageHeights == {k * pageSize + d : k \in 0..MaxPages, d \in {0, 1}}

\* the heights blocks are requested at: the first height of each page of
\* pageSize + 1 heights, so that no two of them fall into one block range
RequestHeights == {k * (pageSize + 1) : k \in 0..MaxPages}

\* BlockInfo of the block at height h
Block(h) == [height |-> h]

\* knownBlocks: {}
NoBlocks == [h \in {} |-> Block(h)]

\* Math.min(...heights); an array of heights is modelled as the set of its
\* elements (neither Math.min nor filter depends on order or repetition)
MathMin(hs) == IF hs = {} THEN Infinity ELSE CHOOSE m \in hs : \A x \in hs : m <= x

beyondPage_Inclusive(height, min) == height >= min + pageSize

\* height => height > min + pageSize
beyondPage(height, min) == height > min + pageSize

\* knownBlocks.find(height): knownBlocks is the plain object {} that addBlock
\* fills under the heights, it has no method `find`, so the call throws
knownBlocksFind_NeverFound(kb, height) == [type |-> "undefined"]

knownBlocksFind(kb, height) == [type |-> "TypeError"]

\* no call of REST_FETCH_BLOCKS yet
NoFetch ==
  [id |-> 0, blockHeights |-> {}, result |-> "none", blocks |-> {}, starts |-> {}]

RECURSIVE getBlockRanges(_)
getBlockRanges(hs) ==
  LET min == MathMin(hs)
      remaining == {height \in hs : beyondPage(height, min)}
  IN <<[start |-> min]>> \o (IF remaining # {} THEN getBlockRanges(remaining) ELSE <<>>)

VARIABLES
  \* store state (Network.ts state)
  initialized, wsEndpoint, currentPeer, networkType, isConnected,
  currentHeight, currentPeerInfo, subscriptions,
  \* environment: the lock and the websocket listeners
  lockHolder, listeners,
  \* callers with the position of their operation, the number of calls made,
  \* and the operation that returned last
  tasks, calls, last,
  \* record of which initialize/uninitialize sequence wrote last
  lastWriter, stale, interleaved,
  \* the list of known peers and the array of the configuration it starts as
  knownPeers, configNodes,
  \* the block cache, the page requests sent to the transport, the timers set
  \* and the last call of REST_FETCH_BLOCKS
  knownBlocks, requests, timers, fetched,
  \* argument and result of getBlockRanges
  blockHeights, blockRanges

store == <<initialized, wsEndpoint, currentPeer, networkType, isConnected,
           currentHeight, currentPeerInfo, subscriptions>>
writes == <<lastWriter, stale, interleaved>>
others == <<knownPeers, configNodes, knownBlocks, requests, timers, fetched,
            blockHeights, blockRanges>>
vars == <<store, lockHolder, listeners, tasks, calls, last, writes, others>>

\* ---- mutations ----------------------------------------------------------
Mut_networkType(type) ==
  IF type \in {"MIJIN_TEST", "MIJIN", "TEST_NET", "MAIN_NET"} THEN type ELSE "MIJIN_TEST"

Mut_currentPeer(payload) ==
  /\ currentPeer' = formatUrl(payload)
  /\ wsEndpoint' = httpToWsUrl(formatUrl(payload).url)

addSubscriptionsGuard_NoLength(payload) == TRUE

\* payload && payload.length : a property the object does not have is undefined
addSubscriptionsGuard(payload) ==
  IF "length" \in DOMAIN payload THEN payload.length > 0 ELSE FALSE

Mut_addSubscriptions(subs, payload) ==
  IF addSubscriptionsGuard(payload) THEN Append(subs, payload) ELSE subs

\* ---- the initialization lock --------------------------------------------
LockFree == lockHolder = 0

\* ---- bookkeeping of writes to isConnected / initialized / subscriptions -
\* the sequence of caller t writes (wrote) and/or ends (final)
SeqWrites(t, wrote, final) ==
  /\ interleaved' = (interleaved \/ (wrote /\ t \in stale))
  /\ stale' = (stale \cup (IF wrote /\ lastWriter \notin {0, t} THEN {lastWriter} ELSE {}))
                 \ (IF final THEN {t} ELSE {})
  /\ lastWriter' = IF final THEN (IF wrote \/ lastWriter = t THEN 0 ELSE lastWriter)
                    ELSE IF wrote THEN t ELSE lastWriter

\* ---- callers ------------------------------------------------------------
IdleTask ==
  [pc |-> "idle", op |-> "none", url |-> EmptyString, nodeUrl |-> EmptyString,
   sub |-> "none", subEp |-> EmptyString, prev |-> "none", snap |-> {},
   wasInit |-> FALSE]

NoLast ==
  [op |-> "none", res |-> "none", prev |-> "none", url |-> EmptyString, snap |-> {}]

\* callers are interchangeable: of the idle ones, the first makes the call
Ready(t) ==
  /\ tasks[t] = IdleTask
  /\ calls < MaxCalls
  /\ \A x \in Tasks : x < t => tasks[x] # IdleTask

\* the caller's record when it calls operation o and stops at position p
\* (prev: the operation that returned just before, when the pair is
\* UNSUBSCRIBE then SUBSCRIBE, or uninitialize then uninitialize)
Called(o, u, p) ==
  [IdleTask EXCEPT !.pc = p, !.op = o, !.url = u,
                   !.prev = IF /\ last.res = "done"
                               /\ <<last.op, o>> \in {<<"UNSUBSCRIBE", "SUBSCRIBE">>,
                                                      <<"uninitialize", "uninitialize">>}
                            THEN last.op ELSE "none",
                   !.snap = IF last.op = "UNSUBSCRIBE" /\ o = "SUBSCRIBE"
                            THEN last.snap ELSE {}]

\* the record of the operation of caller t when it returns with result r
Ended(t, r) == [NoLast EXCEPT !.op = tasks[t].op, !.res = r, !.prev = tasks[t].prev]

OpenListeners == {i \in DOMAIN listeners : listeners[i].open}

\* the connection state, the lock, the listeners and the callers at startup
InitNetwork ==
  /\ initialized = FALSE
  /\ wsEndpoint = EmptyString
  /\ currentPeer = formatUrl(DefaultNodeUrl)
  /\ networkType = "MIJIN_TEST"
  /\ isConnected = FALSE
  /\ currentHeight = 0
  /\ currentPeerInfo = EmptyString
  /\ subscriptions = <<>>
  /\ lockHolder = 0
  /\ listeners = <<>>
  /\ tasks = [t \in Tasks |-> IdleTask]
  /\ calls = 0
  /\ last = NoLast
  /\ lastWriter = 0
  /\ stale = {}
  /\ interleaved = FALSE

\* state.knownPeers is the array of the configuration itself
InitPeers ==
  /\ configNodes = DefaultNodes
  /\ knownPeers = configNodes

InitBlocks ==
  /\ knownBlocks = NoBlocks
  /\ requests = {}
  /\ timers = {}
  /\ fetched = NoFetch

Init ==
  /\ InitNetwork
  /\ InitPeers
  /\ InitBlocks
  /\ blockHeights = {}
  /\ blockRanges = <<>>

\* ---- initialize ---------------------------------------------------------
\* the call: runs up to the acquisition of the lock
initialize(t) ==
  /\ UNCHANGED others
  /\ Ready(t)
  /\ tasks' = [tasks EXCEPT ![t] = Called("initialize", EmptyString, "i_lock")]
  /\ calls' = calls + 1
  /\ UNCHANGED <<store, lockHolder, listeners, last, writes>>

\* the lock is granted and the callback runs up to `await getNetworkType()`
LockInitialize(t) ==
  /\ UNCHANGED others
  /\ tasks[t].pc = "i_lock"
  /\ LockFree
  /\ lockHolder' = t
  /\ tasks' = [tasks EXCEPT ![t].pc = "i_nettype",
                            ![t].nodeUrl = currentPeer.url,
                            ![t].wasInit = initialized]
  /\ UNCHANGED <<store, listeners, calls, last, writes>>

\* catch (e) { console.log } : the callback returns, the lock is released,
\* initialize (or the SET_CURRENT_PEER that awaits it) returns
InitializeCaught(t) ==
  /\ lockHolder' = 0
  /\ tasks' = [tasks EXCEPT ![t] = IdleTask]
  /\ last' = Ended(t, "caught")
  /\ SeqWrites(t, FALSE, TRUE)
  /\ UNCHANGED <<store, listeners, calls>>

\* (the network type returned here stays in a local until it is committed at
\* line 190: its value is drawn there)
getNetworkTypeReturns(t) ==
  /\ UNCHANGED others
  /\ tasks[t].pc = "i_nettype"
  /\ \/ /\ Mut_currentPeer(tasks[t].nodeUrl)
        /\ isConnected' = TRUE
        /\ tasks' = [tasks EXCEPT ![t].pc = "i_nodeinfo"]
        /\ SeqWrites(t, TRUE, FALSE)
        /\ UNCHANGED <<initialized, networkType, currentHeight, currentPeerInfo,
                       subscriptions, lockHolder, listeners, calls, last>>
     \/ InitializeCaught(t)

getNodeInfoReturns_EarlyInitialized(t) ==
  /\ UNCHANGED others
  /\ tasks[t].pc = "i_nodeinfo"
  /\ \/ /\ tasks' = [tasks EXCEPT ![t].pc = "i_height"]
        /\ initialized' = TRUE
        /\ UNCHANGED <<wsEndpoint, currentPeer, networkType, isConnected, currentHeight,
                       currentPeerInfo, subscriptions, lockHolder, listeners, calls,
                       last, writes>>
     \/ InitializeCaught(t)

getNodeInfoReturns(t) ==
  /\ UNCHANGED others
  /\ tasks[t].pc = "i_nodeinfo"
  /\ \/ /\ tasks' = [tasks EXCEPT ![t].pc = "i_height"]
        /\ UNCHANGED <<store, lockHolder, listeners, calls, last, writes>>
     \/ InitializeCaught(t)

\* on success: the four commits, dispatch('SUBSCRIBE') up to its await, the
\* callback returns, the lock is released, initialize returns
getBlockchainHeightReturns(t) ==
  /\ UNCHANGED others
  /\ tasks[t].pc = "i_height"
  /\ \/ \E h \in Heights, type \in NetworkTypeAnswers :
          /\ networkType' = Mut_networkType(type)
          /\ currentHeight' = h
          /\ currentPeerInfo' = tasks[t].nodeUrl
          /\ initialized' = TRUE
          /\ tasks' = [tasks EXCEPT ![t] =
                         [IdleTask EXCEPT !.op = tasks[t].op, !.url = tasks[t].url,
                                          !.sub = "wait", !.subEp = wsEndpoint]]
          /\ last' = Ended(t, "ok")
          /\ lockHolder' = 0
          /\ SeqWrites(t, TRUE, FALSE)
          /\ UNCHANGED <<wsEndpoint, currentPeer, isConnected, subscriptions,
                         listeners, calls>>
     \/ InitializeCaught(t)

\* ---- UNSUBSCRIBE / RESET_SUBSCRIPTIONS ----------------------------------
\* sub.unsubscribe() and listener.close() for every tracked handle
ClosedBy(subs) ==
  [i \in DOMAIN listeners |->
     IF \E k \in DOMAIN subs : subs[k].listener = i
     THEN [listeners[i] EXCEPT !.open = FALSE, !.subscribed = FALSE]
     ELSE listeners[i]]

RESET_SUBSCRIPTIONS == subscriptions' = <<>>

UNSUBSCRIBE ==
  /\ listeners' = ClosedBy(subscriptions)
  /\ RESET_SUBSCRIPTIONS

\* UNSUBSCRIBE dispatched by a caller (it has no await)
unsubscribe(t) ==
  /\ UNCHANGED others
  /\ Ready(t)
  /\ UNSUBSCRIBE
  /\ last' = [NoLast EXCEPT !.op = "UNSUBSCRIBE", !.res = "done", !.snap = OpenListeners]
  /\ calls' = calls + 1
  /\ UNCHANGED <<initialized, wsEndpoint, currentPeer, networkType, isConnected,
                 currentHeight, currentPeerInfo, lockHolder, tasks, writes>>

\* ---- uninitialize -------------------------------------------------------
uninitialize(t) ==
  /\ UNCHANGED others
  /\ Ready(t)
  /\ tasks' = [tasks EXCEPT ![t] = Called("uninitialize", EmptyString, "u_lock")]
  /\ calls' = calls + 1
  /\ UNCHANGED <<store, lockHolder, listeners, last, writes>>

LockUninitialize_SkipWhenNoSubscriptions(t) ==
  /\ UNCHANGED others
  /\ tasks[t].pc = "u_lock"
  /\ LockFree
  /\ UNSUBSCRIBE
  /\ initialized' = IF subscriptions = <<>> THEN initialized ELSE FALSE
  /\ IF tasks[t].op = "SET_CURRENT_PEER"
     THEN /\ tasks' = [tasks EXCEPT ![t].pc = "i_lock"]
          /\ UNCHANGED last
     ELSE /\ tasks' = [tasks EXCEPT ![t] = IdleTask]
          /\ last' = Ended(t, "done")
  /\ SeqWrites(t, TRUE, TRUE)
  /\ UNCHANGED <<wsEndpoint, currentPeer, networkType, isConnected,
                 currentHeight, currentPeerInfo, lockHolder, calls>>

\* the lock is granted, the callback runs (it has no await), the lock is
\* released; uninitialize returns, SET_CURRENT_PEER goes on to initialize
LockUninitialize(t) ==
  /\ UNCHANGED others
  /\ tasks[t].pc = "u_lock"
  /\ LockFree
  /\ UNSUBSCRIBE
  /\ initialized' = FALSE
  /\ IF tasks[t].op = "SET_CURRENT_PEER"
     THEN /\ tasks' = [tasks EXCEPT ![t].pc = "i_lock"]
          /\ UNCHANGED last
     ELSE /\ tasks' = [tasks EXCEPT ![t] = IdleTask]
          /\ last' = Ended(t, "done")
  /\ SeqWrites(t, TRUE, TRUE)
  /\ UNCHANGED <<wsEndpoint, currentPeer, networkType, isConnected,
                 currentHeight, currentPeerInfo, lockHolder, calls>>

\* ---- SET_CURRENT_PEER ---------------------------------------------------
SET_CURRENT_PEER_NoValidation(t, u) ==
  /\ UNCHANGED others
  /\ Ready(t)
  /\ Mut_currentPeer(u)
  /\ isConnected' = FALSE
  /\ initialized' = FALSE
  /\ tasks' = [tasks EXCEPT ![t] = Called("SET_CURRENT_PEER", u, "u_lock")]
  /\ calls' = calls + 1
  /\ UNCHANGED <<networkType, currentHeight, currentPeerInfo, subscriptions,
                 lockHolder, listeners, last, writes>>

\* the call: validation, the three commits, up to `await dispatch('uninitialize')`
SET_CURRENT_PEER(t, u) ==
  /\ UNCHANGED others
  /\ Ready(t)
  /\ calls' = calls + 1
  /\ IF ~isValidURL(u)
     THEN /\ last' = [NoLast EXCEPT !.op = "SET_CURRENT_PEER", !.res = "threw", !.url = u]
          /\ UNCHANGED <<store, lockHolder, listeners, tasks, writes>>
     ELSE /\ Mut_currentPeer(u)
          /\ isConnected' = FALSE
          /\ initialized' = FALSE
          /\ tasks' = [tasks EXCEPT ![t] = Called("SET_CURRENT_PEER", u, "u_lock")]
          /\ UNCHANGED <<networkType, currentHeight, currentPeerInfo, subscriptions,
                         lockHolder, listeners, last, writes>>

\* ---- SUBSCRIBE ----------------------------------------------------------
\* the call: reads wsEndpoint and awaits RESTService.subscribeBlocks
SUBSCRIBE(t) ==
  /\ UNCHANGED others
  /\ Ready(t)
  /\ tasks' = [tasks EXCEPT ![t] =
                 [Called("SUBSCRIBE", EmptyString, "s_wait") EXCEPT
                    !.sub = "wait", !.subEp = wsEndpoint]]
  /\ calls' = calls + 1
  /\ UNCHANGED <<store, lockHolder, listeners, last, writes>>

\* SUBSCRIBE ends with result r: a SUBSCRIBE a caller dispatched returns to it,
\* the one initialize dispatched has no one awaiting it
Subscribed(t, r) ==
  /\ tasks' = [tasks EXCEPT ![t] = IdleTask]
  /\ last' = IF tasks[t].op = "SUBSCRIBE" THEN Ended(t, r) ELSE last

\* subscribeBlocks resolves with {listener, subscriptions} or rejects; no
\* listener opens against the empty endpoint
subscribeBlocksReturns(t) ==
  /\ UNCHANGED others
  /\ tasks[t].sub = "wait"
  /\ \/ /\ Len(listeners) < MaxListeners
        /\ tasks[t].subEp # EmptyString
        /\ LET id == Len(listeners) + 1
               payload == [listener |-> id, subscriptions |-> <<id>>]
           IN /\ listeners' = Append(listeners,
                    [endpoint |-> tasks[t].subEp, open |-> TRUE, subscribed |-> TRUE])
              /\ subscriptions' = Mut_addSubscriptions(subscriptions, payload)
              /\ IF tasks[t].op # "SUBSCRIBE"
                 THEN SeqWrites(t, addSubscriptionsGuard(payload), TRUE)
                 ELSE UNCHANGED writes
        /\ Subscribed(t, "done")
        /\ UNCHANGED <<initialized, wsEndpoint, currentPeer, networkType, isConnected,
                       currentHeight, currentPeerInfo, lockHolder, calls>>
     \/ /\ Subscribed(t, "threw")
        /\ IF tasks[t].op # "SUBSCRIBE"
           THEN SeqWrites(t, FALSE, TRUE)
           ELSE UNCHANGED writes
        /\ UNCHANGED <<store, lockHolder, listeners, calls>>

\* ---- specification ------------------------------------------------------
Next ==
  \E t \in Tasks :
    \/ initialize(t)
    \/ LockInitialize(t)
    \/ getNetworkTypeReturns(t)
    \/ getNodeInfoReturns(t)
    \/ getBlockchainHeightReturns(t)
    \/ uninitialize(t)
    \/ LockUninitialize(t)
    \/ \E u \in PeerUrls \cup InvalidUrls : SET_CURRENT_PEER(t, u)
    \/ SUBSCRIBE(t)
    \/ subscribeBlocksReturns(t)
    \/ unsubscribe(t)

Spec == Init /\ [][Next]_vars

TypeOK ==
  /\ initialized \in BOOLEAN
  /\ isConnected \in BOOLEAN
  /\ lockHolder \in Tasks \cup {0}
  /\ currentHeight \in Heights \cup {0}
  /\ calls \in 0..MaxCalls
  /\ Len(listeners) <= MaxListeners

\* ---- steps the properties speak about -----------------------------------
InitPcs == {"i_nettype", "i_nodeinfo", "i_height"}

\* the initialize of caller t ends with all three transport calls answered
InitSucceeds(t) == tasks[t].pc = "i_height" /\ tasks'[t].sub = "wait"

\* the initialize of caller t ends because a transport call failed
InitFails(t) == tasks[t].pc \in InitPcs /\ tasks'[t] = IdleTask

\* this step is a call of SET_CURRENT_PEER with url u
SetPeerCalled(u) ==
  /\ calls' = calls + 1
  /\ \/ \E t \in Tasks : /\ tasks'[t] # tasks[t]
                         /\ tasks'[t].op = "SET_CURRENT_PEER" /\ tasks'[t].url = u
     \/ tasks' = tasks /\ last'.op = "SET_CURRENT_PEER" /\ last'.url = u

\* no other caller is switching the peer
OnlySwitch(t) == \A x \in Tasks \ {t} : tasks[x].op # "SET_CURRENT_PEER"

\* the operation of caller t and the SUBSCRIBE it dispatched have ended
Finished(t) == tasks[t] = IdleTask

WsOfOtherPeers(u) == {httpToWsUrl(v) : v \in PeerUrls \ {u}}

\* ---- C1 -----------------------------------------------------------------
\* C1: no initialize/uninitialize sequence writes isConnected, initialized or
\* the tracked subscriptions between the first and the last such write of
\* another sequence (the write of the SUBSCRIBE an initialize dispatched
\* belongs to that initialize).
C1_NoInterleavedWrites == interleaved = FALSE

\* an initialize has written, its SUBSCRIBE is still pending, and another
\* sequence has written since
C1_Witness ==
  \E t \in Tasks : tasks[t].sub = "wait" /\ tasks[t].op # "SUBSCRIBE" /\ t \in stale

\* ---- C2 -----------------------------------------------------------------
\* C2: when an initialize whose three transport calls succeeded returns,
\* isConnected and initialized are true and currentHeight is the height the
\* transport returned.
C2_AfterSuccessfulInitialize ==
  [][\A t \in Tasks : InitSucceeds(t) =>
        isConnected' /\ initialized' /\ currentHeight' \in Heights]_vars

\* ---- C3 -----------------------------------------------------------------
\* C3 (as claimed): when an initialize whose transport call failed returns,
\* it has not raised and initialized is false.
C3_FailedInitializeLeavesUninitialized ==
  [][\A t \in Tasks : InitFails(t) => last'.res = "caught" /\ ~initialized']_vars

\* C3 (amended): when an initialize whose transport call failed returns, it
\* has not raised and has not written initialized; initialized is false if it
\* was false when the callback of that initialize began.
C3_FailedInitializeLeavesInitializedAlone ==
  [][\A t \in Tasks : InitFails(t) =>
        /\ last'.res = "caught"
        /\ initialized' = initialized
        /\ (~tasks[t].wasInit => ~initialized')]_vars

\* an initialize that found the store uninitialized has failed after its
\* first transport call and has returned
C3_Witness ==
  last.op = "initialize" /\ last.res = "caught" /\ ~initialized /\ isConnected

\* ---- C4 -----------------------------------------------------------------
\* C4: a SET_CURRENT_PEER call with an invalid url throws and leaves the store,
\* the lock and the listeners as they were; it runs no uninitialize/initialize.
C4_InvalidPeerRejected ==
  [][\A u \in InvalidUrls : SetPeerCalled(u) =>
        /\ last'.res = "threw"
        /\ tasks' = tasks
        /\ UNCHANGED <<store, lockHolder, listeners>>]_vars

\* an invalid url was rejected while the store was connected and initialized
C4_Witness ==
  /\ last.op = "SET_CURRENT_PEER" /\ last.res = "threw" /\ ~isValidURL(last.url)
  /\ initialized /\ isConnected

\* ---- C5 -----------------------------------------------------------------
\* C5: the initialize of SET_CURRENT_PEER(url) issues its transport calls
\* against url, and currentPeer is url when SET_CURRENT_PEER returns, also
\* when another initialize is in flight.
C5_InitializeAgainstNewPeer ==
  [][\A t \in Tasks : tasks[t].op = "SET_CURRENT_PEER" /\ OnlySwitch(t) =>
        /\ (tasks[t].pc = "i_lock" /\ tasks'[t].pc = "i_nettype"
              => tasks'[t].nodeUrl = tasks[t].url)
        /\ (tasks[t].pc \in InitPcs /\ tasks'[t].pc = "idle"
              => currentPeer'.url = tasks[t].url)]_vars

\* ---- C6 -----------------------------------------------------------------
\* C6: only the call of SET_CURRENT_PEER changes the value of currentPeer.
C6_OnlySetCurrentPeerChangesPeer ==
  [][currentPeer' # currentPeer => \E u \in PeerUrls : SetPeerCalled(u)]_vars

\* ---- C7 -----------------------------------------------------------------
\* C7: when a SUBSCRIBE called right after an UNSUBSCRIBE returned completes,
\* the listener it opened is open and no listener that was open before the
\* UNSUBSCRIBE is.
C7_OneListenerAfterResubscribe ==
  [][\A t \in Tasks :
        (/\ tasks[t].op = "SUBSCRIBE" /\ tasks[t].prev = "UNSUBSCRIBE"
         /\ tasks[t].sub = "wait" /\ Len(listeners') = Len(listeners) + 1
         /\ tasks'[t] = IdleTask)
        => OpenListeners' \cap (tasks[t].snap \cup {Len(listeners')}) = {Len(listeners')}]_vars

\* ---- C8 -----------------------------------------------------------------
\* C8: when SET_CURRENT_PEER(url) and the SUBSCRIBE it dispatched have ended,
\* no listener opened against the websocket endpoint of another peer is open.
C8_NoListenerOfPreviousPeer ==
  [][\A t \in Tasks :
        (/\ tasks[t].op = "SET_CURRENT_PEER" /\ OnlySwitch(t)
         /\ ~Finished(t) /\ Finished(t)')
        => \A i \in OpenListeners' :
              listeners'[i].endpoint \notin WsOfOtherPeers(tasks[t].url)]_vars

\* ---- C9 -----------------------------------------------------------------
\* C9: every uninitialize returns without throwing and with initialized
\* false, also the second of two in succession.
C9_UninitializeTwice ==
  [][\A t \in Tasks :
        (tasks[t].pc = "u_lock" /\ tasks[t].op = "uninitialize" /\ tasks'[t].pc # "u_lock")
        => last'.res = "done" /\ ~initialized']_vars

\* the second of two uninitialize calls in succession has returned
C9_Witness ==
  /\ last.op = "uninitialize" /\ last.prev = "uninitialize" /\ last.res = "done"
  /\ ~initialized

\* ---- C10 ----------------------------------------------------------------
\* C10: wsEndpoint is the websocket url of currentPeer in every state.
C10_EndpointDerivedFromPeer == wsEndpoint = httpToWsUrl(currentPeer.url)
\* ---- known peers -------------------------------------------------------
\* knownPeers.push(peerUrl): the array pushed to is the one of the configuration
Mut_addPeer(peerUrl) ==
  /\ knownPeers' = Append(knownPeers, peerUrl)
  /\ configNodes' = knownPeers'

\* networkConfig.networks['testnet-publicTest'].nodes, as it is by now
Mut_resetPeers ==
  /\ knownPeers' = configNodes
  /\ UNCHANGED configNodes

ADD_KNOWN_PEER(peerUrl) ==
  /\ calls < MaxCalls
  /\ calls' = calls + 1
  /\ IF ~isValidURL(peerUrl)
     THEN /\ last' = [NoLast EXCEPT !.op = "ADD_KNOWN_PEER", !.res = "threw", !.url = peerUrl]
          /\ UNCHANGED <<knownPeers, configNodes>>
     ELSE /\ Len(knownPeers) < MaxKnownPeers
          /\ Mut_addPeer(peerUrl)
          /\ last' = [NoLast EXCEPT !.op = "ADD_KNOWN_PEER", !.res = "done", !.url = peerUrl]
  /\ UNCHANGED <<store, lockHolder, listeners, tasks, writes,
                 knownBlocks, requests, timers, fetched, blockHeights, blockRanges>>

\* state.knownPeers.findIndex(peerUrl): a url is no function, findIndex throws
REMOVE_KNOWN_PEER(peerUrl) ==
  /\ calls < MaxCalls
  /\ calls' = calls + 1
  /\ last' = [NoLast EXCEPT !.op = "REMOVE_KNOWN_PEER", !.res = "threw", !.url = peerUrl]
  /\ UNCHANGED <<store, lockHolder, listeners, tasks, writes, others>>

RESET_PEERS ==
  /\ calls < MaxCalls
  /\ calls' = calls + 1
  /\ Mut_resetPeers
  /\ last' = [NoLast EXCEPT !.op = "RESET_PEERS", !.res = "done"]
  /\ UNCHANGED <<store, lockHolder, listeners, tasks, writes,
                 knownBlocks, requests, timers, fetched, blockHeights, blockRanges>>

\* ---- block cache -------------------------------------------------------
\* knownBlocks[block.height.compact()] = block
Mut_addBlock(kb, block) ==
  [h \in DOMAIN kb \cup {block.height} |-> IF h = block.height THEN block ELSE kb[h]]

RECURSIVE AddBlocks(_, _)
\* blocks.map(block => commit('addBlock', block))
AddBlocks(kb, blocks) ==
  IF blocks = {} THEN kb
  ELSE LET block == CHOOSE b \in blocks : TRUE
       IN AddBlocks(Mut_addBlock(kb, block), blocks \ {block})

ADD_BLOCK(block) ==
  /\ calls < MaxCalls
  /\ calls' = calls + 1
  /\ knownBlocks' = Mut_addBlock(knownBlocks, block)
  /\ last' = [NoLast EXCEPT !.op = "ADD_BLOCK", !.res = "done"]
  /\ UNCHANGED <<store, lockHolder, listeners, tasks, writes, knownPeers, configNodes,
                 requests, timers, fetched, blockHeights, blockRanges>>

\* ---- REST_FETCH_BLOCKS -------------------------------------------------
\* the blocks the transport returns for a page: those of the pageSize heights
\* from start on
Page(start) == {Block(h) : h \in {x \in start..(start + pageSize - 1) : x < Infinity}}

\* ranges.slice(from, to) (to exclusive)
Slice(list, from, to) ==
  SubSeq(list, from + 1, IF to < Len(list) THEN to ELSE Len(list))

\* the whole call: the two filters (outside the try: a throw of the callback
\* rejects the call), the planning, the timer for the ranges beyond three, the
\* requests sent by the async callbacks of ranges.map (not awaited), the
\* commit of the blocks and the return
REST_FETCH_BLOCKS(bh) ==
  /\ calls < MaxCalls
  /\ calls' = calls + 1
  /\ IF \E height \in bh : knownBlocksFind(knownBlocks, height).type = "TypeError"
     THEN /\ fetched' = [NoFetch EXCEPT !.id = calls', !.blockHeights = bh, !.result = "threw"]
          /\ last' = [NoLast EXCEPT !.op = "REST_FETCH_BLOCKS", !.res = "threw"]
          /\ UNCHANGED <<knownBlocks, requests, timers>>
     ELSE LET missing == {height \in bh :
                            knownBlocksFind(knownBlocks, height).type = "undefined"}
              blocks == {knownBlocksFind(knownBlocks, known).block : known \in bh \ missing}
              planned == getBlockRanges(missing)
              now == IF Len(planned) > 3 THEN Slice(planned, 0, 3) ELSE planned
              starts == {now[i].start : i \in DOMAIN now}
          IN /\ timers' = IF Len(planned) > 3
                           THEN timers \cup {[id |-> calls', payload |-> Slice(now, 3, Len(now))]}
                           ELSE timers
             /\ requests' = requests \cup
                   {[id |-> calls', start |-> s, peer |-> currentPeer.url, answer |-> "pending"]
                      : s \in starts}
             /\ knownBlocks' = AddBlocks(knownBlocks, blocks)
             /\ fetched' = [id |-> calls', blockHeights |-> bh, result |-> "blocks",
                            blocks |-> blocks, starts |-> starts]
             /\ last' = [NoLast EXCEPT !.op = "REST_FETCH_BLOCKS", !.res = "done"]
  /\ UNCHANGED <<store, lockHolder, listeners, tasks, writes, knownPeers, configNodes,
                 blockHeights, blockRanges>>

\* the transport answers a request: `blocks = blocks.concat(page)` rebinds a
\* local of a call that has returned, a rejection is caught by no one
getBlocksByHeightWithLimitReturns(r) ==
  /\ r \in requests
  /\ r.answer = "pending"
  /\ \/ requests' = (requests \ {r}) \cup {[r EXCEPT !.answer = "page"]}
     \/ requests' = (requests \ {r}) \cup {[r EXCEPT !.answer = "failed"]}
  /\ UNCHANGED <<store, lockHolder, listeners, tasks, calls, last, writes,
                 knownPeers, configNodes, knownBlocks, timers, fetched,
                 blockHeights, blockRanges>>

\* the operations on the known peers and on the block cache
StoreNext ==
  \/ \E u \in PeerUrls \cup InvalidUrls : ADD_KNOWN_PEER(u)
  \/ \E u \in PeerUrls : REMOVE_KNOWN_PEER(u)
  \/ RESET_PEERS
  \/ \E h \in RequestHeights : ADD_BLOCK(Block(h))
  \/ \E bh \in SUBSET RequestHeights : REST_FETCH_BLOCKS(bh)
  \/ \E r \in requests : getBlocksByHeightWithLimitReturns(r)

StoreSpec == Init /\ [][StoreNext]_vars

\* ---- steps of the store operations the properties speak about ----------
\* this step is a call of REST_FETCH_BLOCKS (fetched' holds its argument,
\* what it sent and what it returned)
FetchCalled == calls' = calls + 1 /\ last'.op = "REST_FETCH_BLOCKS"

\* the requested heights that are in the cache when the call is made
CachedRequested == fetched'.blockHeights \cap DOMAIN knownBlocks

\* the request r of the last call of REST_FETCH_BLOCKS is answered
Answered(r, a) ==
  /\ r \in requests /\ r.answer = "pending" /\ r.id = fetched.id
  /\ [r EXCEPT !.answer = a] \in requests'

\* ---- C11 ----------------------------------------------------------------
\* C11: no page request sent by a call of REST_FETCH_BLOCKS starts at a
\* requested height that is in the block cache.
C11_NoRequestForCachedHeight ==
  [][FetchCalled => \A r \in requests' \ requests : r.start \notin CachedRequested]_vars

\* REST_FETCH_BLOCKS has been called with a height that is in the cache
C11_Witness ==
  /\ last.op = "REST_FETCH_BLOCKS"
  /\ fetched.blockHeights \cap DOMAIN knownBlocks # {}

\* ---- C12 ----------------------------------------------------------------
\* C12: a call of REST_FETCH_BLOCKS whose missing heights plan into 4 ranges
\* sends the requests of the first 3 ranges and sets a timer whose
\* re-invocation receives the 4th range.
C12_ThreeNowOneLater ==
  [][LET planned == getBlockRanges(fetched'.blockHeights \ DOMAIN knownBlocks)
     IN FetchCalled /\ Len(planned) = 4 =>
          /\ fetched'.starts = {planned[i].start : i \in 1..3}
          /\ \E timer \in timers' \ timers :
                \E i \in DOMAIN timer.payload : timer.payload[i] = planned[4]]_vars

\* ---- C13 ----------------------------------------------------------------
\* C13: when the transport fails a request of a call of REST_FETCH_BLOCKS,
\* the value that call returns is false.
C13_FailureReported ==
  [][\A r \in requests : Answered(r, "failed") => fetched'.result = "false"]_vars

\* ---- C14 ----------------------------------------------------------------
\* C14: a call of REST_FETCH_BLOCKS none of whose requests fails returns a
\* list with the cached requested blocks, and every block of a page the
\* transport returns is in the cache under its height and in that list.
C14_BlocksCachedAndReturned ==
  [][/\ FetchCalled =>
          /\ fetched'.result = "blocks"
          /\ \A h \in CachedRequested : knownBlocks[h] \in fetched'.blocks
     /\ \A r \in requests : Answered(r, "page") =>
          \A block \in Page(r.start) :
             /\ block.height \in DOMAIN knownBlocks'
             /\ block \in fetched'.blocks]_vars

\* ---- C15 ----------------------------------------------------------------
\* C15: RESET_PEERS leaves knownPeers equal to the node list of the
\* configuration as it was at startup.
C15_ResetRestoresDefaults ==
  [][calls' = calls + 1 /\ last'.op = "RESET_PEERS" => knownPeers' = DefaultNodes]_vars

\* ---- getBlockRanges applied to the arrays of a bounded set --------------
\* every array of at most two heights up to MaxBlockHeight, and every array
\* of heights at the edges of the pages 0..MaxPages
RangeInputs == {{a, b} : a, b \in 0..MaxBlockHeight} \cup SUBSET PageHeights

RangeInit ==
  /\ InitNetwork
  /\ InitPeers
  /\ InitBlocks
  /\ blockHeights \in RangeInputs
  /\ blockRanges = <<>>

\* (the result is never the empty list: <<>> stands for "not called yet")
CallGetBlockRanges ==
  /\ blockRanges = <<>>
  /\ blockRanges' = getBlockRanges(blockHeights)
  /\ UNCHANGED <<store, lockHolder, listeners, tasks, calls, last, writes,
                 knownPeers, configNodes, knownBlocks, requests, timers, fetched,
                 blockHeights>>

RangeNext == CallGetBlockRanges

RangeSpec == RangeInit /\ [][RangeNext]_vars

Starts == {blockRanges[i].start : i \in DOMAIN blockRanges}

\* ---- C16 ----------------------------------------------------------------
\* C16: for every array of heights H, the starts of getBlockRanges(H) are
\* strictly increasing and every start is an element of H.
C16_IncreasingStartsOfInput ==
  blockRanges # <<>> =>
    /\ \A i, j \in DOMAIN blockRanges :
          i < j => blockRanges[i].start < blockRanges[j].start
    /\ Starts \subseteq blockHeights

\* ---- C17 ----------------------------------------------------------------
\* C17: for heights a < b, getBlockRanges([a, b]) is [{start: a}] when
\* b <= a + 100 and [{start: a}, {start: b}] when b > a + 100;
\* getBlockRanges([a]) is [{start: a}].
C17_OneOrTwoHeights ==
  blockRanges # <<>> =>
    \A a, b \in blockHeights :
      /\ blockHeights = {a} => blockRanges = <<[start |-> a]>>
      /\ blockHeights = {a, b} /\ a < b =>
            blockRanges = IF b <= a + 100 THEN <<[start |-> a]>>
                          ELSE <<[start |-> a], [start |-> b]>>

\* getBlockRanges has been applied to two heights exactly 100 apart
C17_Witness ==
  /\ blockRanges # <<>>
  /\ \E a \in blockHeights : a + 100 \in blockHeights /\ blockHeights = {a, a + 100}

\* ---- C18 ----------------------------------------------------------------
\* C18: every height of a non-empty array H lies in the page of a range of
\* getBlockRanges(H): the 100 heights from its start on.
C18_EveryHeightInAPage ==
  blockRanges # <<>> /\ blockHeights # {} =>
    \A h \in blockHeights : \E s \in Starts : s <= h /\ h < s + 100
\* ---- C19 ----------------------------------------------------------------
\* C19: in every state of the connection lifecycle, initialized implies
\* isConnected.
C19_InitializedImpliesConnected == initialized => isConnected

\* ---- C20 ----------------------------------------------------------------
\* C20: a call of REST_FETCH_BLOCKS all of whose requested heights are in the
\* block cache (or that requests none) plans no range and sends no request.
C20_NothingMissingNothingSent ==
  [][FetchCalled /\ fetched'.blockHeights \subseteq DOMAIN knownBlocks =>
        fetched'.starts = {} /\ requests' = requests]_vars
====
